---- MODULE Spec2Model ----
(***************************************************************************)
(* Model of ragas/integrations/huggingface.py: the JSON-options parser     *)
(* _safe_json_loads_ and the lazily initialised accessor                   *)
(* huggingface_tokenizer.                                                  *)
(*                                                                         *)
(* Strings are sequences of one-character strings.  An optional string     *)
(* (os.environ.get, str | None) is a record [present, v].                  *)
(***************************************************************************)
EXTENDS Integers, Sequences, FiniteSets, TLC

\* ------------------------------------------------------------------ bounds
MaxLen == 3        \* longest option string enumerated exhaustively
MaxCalls == 3      \* accessor calls started in one behaviour
NThreads == 2      \* concurrent callers

\* ------------------------------------------------------------ strings
\* The characters option strings are built from.
JsonChars ==
  {"{", "}", "[", "]", ":", ",", "\"", "\\", "0", "1", "-", " ", "'", "x"}

Absent == [present |-> FALSE, v |-> <<>>]

Some(s) == [present |-> TRUE, v |-> s]

StringsUpTo(n) == UNION {[1..k -> JsonChars] : k \in 0..n}

\* Option strings longer than MaxLen that exercise objects with members.
ExtraStrings ==
  { <<"{", "\"", "x", "\"", ":", "1", "}">>,
    <<"{", "\"", "\"", ":", "[", "]", "}">>,
    <<"{", "\"", "\"", ":", "1", ",", "}">>,
    <<"[", "1", ",", " ", "\"", "\\", "\\", "\"", "]">>,
    <<"x", "\\", "'", "\"", "x", "{">> }

\* Is sub a contiguous part of s?
Contains(s, sub) ==
  \E i \in 1..(Len(s) - Len(sub) + 1) : SubSeq(s, i, i + Len(sub) - 1) = sub

\* repr() of a str (the {s!r} conversion): double quotes when the string
\* has a single quote and no double quote, single quotes otherwise;
\* backslash and the chosen quote are escaped.
ReprQuote(s) ==
  IF (\E i \in 1..Len(s) : s[i] = "'") /\ ~(\E i \in 1..Len(s) : s[i] = "\"")
  THEN "\"" ELSE "'"

RECURSIVE ReprBody(_, _)
ReprBody(s, q) ==
  IF s = <<>> THEN <<>>
  ELSE (IF Head(s) = "\\" \/ Head(s) = q THEN <<"\\", Head(s)>> ELSE <<Head(s)>>)
       \o ReprBody(Tail(s), q)

PyRepr(s) == <<ReprQuote(s)>> \o ReprBody(s, ReprQuote(s)) \o <<ReprQuote(s)>>

\* ------------------------------------------------------------ json.loads
\* Values: [t |-> "dict", v |-> sequence of <<key, value>>], [t |-> "list",
\* v |-> sequence of values], [t |-> "str", v |-> string], [t |-> "int",
\* v |-> integer].  A parse step yields [ok, val, pos]: pos is the index of
\* the first character not consumed.
JFail == [ok |-> FALSE, val |-> <<>>, pos |-> 0]

JOk(val, pos) == [ok |-> TRUE, val |-> val, pos |-> pos]

RECURSIVE SkipWs(_, _)
SkipWs(s, i) == IF i <= Len(s) /\ s[i] = " " THEN SkipWs(s, i + 1) ELSE i

Digit(c) == IF c = "1" THEN 1 ELSE 0

IsDigit(c) == c \in {"0", "1"}

\* [1-9][0-9]* continued from position i with the value read so far.
RECURSIVE ScanDigits(_, _, _)
ScanDigits(s, i, acc) ==
  IF i <= Len(s) /\ IsDigit(s[i])
  THEN ScanDigits(s, i + 1, acc * 10 + Digit(s[i]))
  ELSE JOk(acc, i)

\* NUMBER_RE: -?(0|[1-9][0-9]*) matched at position i.
ScanNumber(s, i) ==
  LET neg == i <= Len(s) /\ s[i] = "-"
      j == IF neg THEN i + 1 ELSE i
  IN IF j > Len(s) \/ ~IsDigit(s[j]) THEN JFail
     ELSE LET d == IF s[j] = "0" THEN JOk(0, j + 1) ELSE ScanDigits(s, j, 0)
          IN JOk([t |-> "int", v |-> IF neg THEN 0 - d.val ELSE d.val], d.pos)

\* scanstring: i is the position after the opening quote.
RECURSIVE ScanString(_, _, _)
ScanString(s, i, acc) ==
  IF i > Len(s) THEN JFail
  ELSE IF s[i] = "\"" THEN JOk([t |-> "str", v |-> acc], i + 1)
  ELSE IF s[i] = "\\"
       THEN IF i + 1 <= Len(s) /\ s[i + 1] \in {"\"", "\\"}
            THEN ScanString(s, i + 2, Append(acc, s[i + 1]))
            ELSE JFail
  ELSE ScanString(s, i + 1, Append(acc, s[i]))

\* dict(pairs): a repeated key keeps its place and takes the later value.
DictSet(d, k, val) ==
  IF \E n \in 1..Len(d) : d[n][1] = k
  THEN [n \in 1..Len(d) |-> IF d[n][1] = k THEN <<k, val>> ELSE d[n]]
  ELSE Append(d, <<k, val>>)

RECURSIVE ScanOnce(_, _)
RECURSIVE ArrayItems(_, _, _)
RECURSIVE ObjectItems(_, _, _)

\* JSONArray after the first value position: i is where a value starts.
ArrayItems(s, i, acc) ==
  LET r == ScanOnce(s, i)
  IN IF ~r.ok THEN JFail
     ELSE LET j == SkipWs(s, r.pos)
          IN IF j > Len(s) THEN JFail
             ELSE IF s[j] = "]"
                  THEN JOk([t |-> "list", v |-> Append(acc, r.val)], j + 1)
             ELSE IF s[j] = ","
                  THEN ArrayItems(s, SkipWs(s, j + 1), Append(acc, r.val))
             ELSE JFail

\* JSONObject: i is the position of the opening quote of a key.
ObjectItems(s, i, acc) ==
  IF i > Len(s) \/ s[i] # "\"" THEN JFail
  ELSE LET k == ScanString(s, i + 1, <<>>)
       IN IF ~k.ok THEN JFail
          ELSE LET c == SkipWs(s, k.pos)
               IN IF c > Len(s) \/ s[c] # ":" THEN JFail
                  ELSE LET r == ScanOnce(s, SkipWs(s, c + 1))
                       IN IF ~r.ok THEN JFail
                          ELSE LET j == SkipWs(s, r.pos)
                                   d == DictSet(acc, k.val.v, r.val)
                               IN IF j > Len(s) THEN JFail
                                  ELSE IF s[j] = "}"
                                       THEN JOk([t |-> "dict", v |-> d], j + 1)
                                  ELSE IF s[j] = ","
                                       THEN ObjectItems(s, SkipWs(s, j + 1), d)
                                  ELSE JFail

\* scan_once: one JSON value starting exactly at position i.
ScanOnce(s, i) ==
  IF i > Len(s) THEN JFail
  ELSE IF s[i] = "\"" THEN ScanString(s, i + 1, <<>>)
  ELSE IF s[i] = "{"
       THEN LET j == SkipWs(s, i + 1)
            IN IF j <= Len(s) /\ s[j] = "}"
               THEN JOk([t |-> "dict", v |-> <<>>], j + 1)
               ELSE ObjectItems(s, j, <<>>)
  ELSE IF s[i] = "["
       THEN LET j == SkipWs(s, i + 1)
            IN IF j <= Len(s) /\ s[j] = "]"
               THEN JOk([t |-> "list", v |-> <<>>], j + 1)
               ELSE ArrayItems(s, j, <<>>)
  ELSE ScanNumber(s, i)

\* json.loads(s): leading and trailing whitespace is skipped, anything
\* else after the value is "Extra data".  ok = FALSE is JSONDecodeError.
JsonLoads(s) ==
  LET r == ScanOnce(s, SkipWs(s, 1))
  IN IF r.ok /\ SkipWs(s, r.pos) = Len(s) + 1 THEN r ELSE JFail

\* ------------------------------------------------------------ exceptions
\* An exception is the chain <<itself, its __cause__, the cause's cause, ...>>
\* of frames [type, msg]; msg is a sequence of pieces of text.
Frame(type, msg) == [type |-> type, msg |-> msg]

NoExc == <<>>

\* raise new from e
RaiseFrom(new, e) == <<new>> \o e

\* The classes of the types that occur here (isinstance).
Bases(type) ==
  CASE type = "JSONDecodeError" -> {"JSONDecodeError", "ValueError", "Exception"}
    [] type = "ModuleNotFoundError" -> {"ModuleNotFoundError", "ImportError", "Exception"}
    [] type = "KeyboardInterrupt" -> {"KeyboardInterrupt"}
    [] OTHER -> {type, "Exception"}

IsInstance(e, cls) == cls \in Bases(e[1].type)

\* ------------------------------------------------------------ outcomes
NoVal == [t |-> "none", v |-> <<>>]

EmptyDict == [t |-> "dict", v |-> <<>>]

NotRun == [kind |-> "none", val |-> NoVal, exc |-> NoExc]

Returned(val) == [kind |-> "return", val |-> val, exc |-> NoExc]

Raised(e) == [kind |-> "raise", val |-> NoVal, exc |-> e]

\* ------------------------------------------------------------ _safe_json_loads_
\* Variant: the string is formatted with {s} instead of {s!r}.
DecodeMsg_str(s) == <<"Failed to decode JSON string ">> \o s

DecodeMsg(s) == <<"Failed to decode JSON string ">> \o PyRepr(s)

JSONDecodeError == <<Frame("JSONDecodeError", <<"(json.decoder message)">>)>>

\* Variant: the guard is "if s is None" instead of "if not s".
safe_json_loads_is_none(s) ==
  IF ~s.present THEN Returned(EmptyDict)
  ELSE LET r == JsonLoads(s.v)
       IN IF r.ok THEN Returned(r.val)
          ELSE Raised(RaiseFrom(Frame("ValueError", DecodeMsg(s.v)), JSONDecodeError))

\* s is an optional string.
safe_json_loads(s) ==
  IF ~s.present \/ s.v = <<>> THEN Returned(EmptyDict)
  ELSE LET r == JsonLoads(s.v)
       IN IF r.ok THEN Returned(r.val)
          ELSE Raised(RaiseFrom(Frame("ValueError", DecodeMsg(s.v)), JSONDecodeError))

\* ------------------------------------------------------------ state
VARIABLES
  env,         \* os.environ restricted to the three names used here
  importable,  \* can "from transformers import AutoTokenizer" succeed
  cache,       \* the module global _HF_TOKENIZER (Unbound until assigned)
  pc,          \* per thread: position in huggingface_tokenizer
  loc,         \* per thread: locals of the running call
  result,      \* per thread: outcome of the call that has just ended
  nCalls,      \* calls started
  nInvoked,    \* invocations of AutoTokenizer.from_pretrained
  everFailed,  \* has from_pretrained ever raised
  log,         \* records emitted through logger
  pin,         \* argument of _safe_json_loads_ (parser specification)
  pout         \* its outcome

vars ==
  <<env, importable, cache, pc, loc, result, nCalls, nInvoked, everFailed,
    log, pin, pout>>

accessorVars ==
  <<env, importable, cache, pc, loc, result, nCalls, nInvoked, everFailed, log>>

Threads == 1..NThreads

MainThread == 1

EnvNames == {"HF_TOKENIZER_MODEL", "HF_TOKENIZER_ARGS", "TOKENIZERS_PARALLELISM"}

\* Values the embedding process gives the variables.
ModelValues == {Absent, Some(<<>>), Some(<<"x">>), Some(<<"1">>)}

ArgsValues ==
  { Absent, Some(<<>>),
    Some(<<"{", "\"", "x", "\"", ":", "1", "}">>),
    Some(<<"[", "]">>),
    Some(<<"0">>),
    Some(<<"x", "\\", "x">>) }

FlagValues == {Absent, Some(<<"t", "r", "u", "e">>), Some(<<"f", "a", "l", "s", "e">>)}

EnvValues(name) ==
  CASE name = "HF_TOKENIZER_MODEL" -> ModelValues
    [] name = "HF_TOKENIZER_ARGS" -> ArgsValues
    [] OTHER -> FlagValues

\* Exception types AutoTokenizer.from_pretrained is made to raise.
LibExcTypes == {"OSError", "NameError", "KeyboardInterrupt"}

Unbound == [t |-> "unbound", v |-> <<>>]

PyNone == [t |-> "None", v |-> <<>>]

Handle(k) == [t |-> "handle", v |-> <<k>>]

IsHandle(val) == val.t = "handle"

\* Locals at the start of a call.  hit: outcome of the cache check; model,
\* args: hf_tokenizer_model, tokenizer_args; e: the exception in flight;
\* flag: values this call wrote to TOKENIZERS_PARALLELISM; reads: number of
\* os.environ.get calls; invoked: from_pretrained was called; made: number
\* of the invocation.
Locals0 ==
  [hit |-> FALSE, model |-> Absent, args |-> NoVal, e |-> NoExc,
   flag |-> <<>>, reads |-> 0, invoked |-> FALSE, made |-> 0]

NameErrorMsg ==
  <<"HF_TOKENIZER_MODEL environment variable must be set to use Huggingface tokenizer.">>

RuntimeErrorMsg ==
  <<"Failed to load Huggingface tokenizer. Unset environment variable 'HF_TOKENIZER_MODEL' to disable using huggingface tokenizer.">>

Init ==
  /\ env \in [EnvNames -> {Absent}]
  /\ importable \in BOOLEAN
  /\ cache = Unbound
  /\ pc = [t \in Threads |-> "idle"]
  /\ loc = [t \in Threads |-> Locals0]
  /\ result = [t \in Threads |-> NotRun]
  /\ nCalls = 0
  /\ nInvoked = 0
  /\ everFailed = FALSE
  /\ log = <<>>
  /\ pin = Absent
  /\ pout = NotRun

\* ------------------------------------------------------------ environment
\* The process sets or deletes one of the variables.
SetEnv(name, val) ==
  /\ env[name] # val
  /\ env' = [env EXCEPT ![name] = val]
  /\ UNCHANGED <<importable, cache, pc, loc, result, nCalls, nInvoked,
                 everFailed, log, pin, pout>>

\* The transformers package becomes importable, or stops being so.
SetImportable(b) ==
  /\ importable # b
  /\ importable' = b
  /\ UNCHANGED <<env, cache, pc, loc, result, nCalls, nInvoked, everFailed,
                 log, pin, pout>>

\* ------------------------------------------------------------ huggingface_tokenizer
Goto(t, label) == pc' = [pc EXCEPT ![t] = label]

\* Control passes to the except clause with exception e.
Throw(t, e) ==
  /\ loc' = [loc EXCEPT ![t].e = e]
  /\ Goto(t, "except")

\* A caller enters the function.
Call(t) ==
  /\ pc[t] = "idle"
  /\ nCalls < MaxCalls
  /\ nCalls' = nCalls + 1
  /\ loc' = [loc EXCEPT ![t] = Locals0]
  /\ Goto(t, "check")
  /\ UNCHANGED <<env, importable, cache, result, nInvoked, everFailed, log,
                 pin, pout>>

\* Variant: the global is never consulted.
CheckCache_never_hits(t) ==
  /\ pc[t] = "check"
  /\ Goto(t, "import")
  /\ UNCHANGED <<env, importable, cache, loc, result, nCalls, nInvoked,
                 everFailed, log, pin, pout>>

\* Variant: the cached handle is returned only while HF_TOKENIZER_MODEL is
\* still set.
CheckCache_revalidates(t) ==
  /\ pc[t] = "check"
  /\ IF cache # Unbound /\ env["HF_TOKENIZER_MODEL"].present
     THEN /\ result' = [result EXCEPT ![t] = Returned(cache)]
          /\ loc' = [loc EXCEPT ![t].hit = TRUE]
          /\ Goto(t, "done")
     ELSE /\ Goto(t, "import")
          /\ UNCHANGED <<result, loc>>
  /\ UNCHANGED <<env, importable, cache, nCalls, nInvoked, everFailed, log,
                 pin, pout>>

\* Variant: check-construct-store is a critical section; a caller waits at
\* the check while another one is inside.
CheckCache_locked(t) ==
  /\ pc[t] = "check"
  /\ \A u \in Threads \ {t} : pc[u] \in {"idle", "check", "done"}
  /\ IF cache # Unbound
     THEN /\ result' = [result EXCEPT ![t] = Returned(cache)]
          /\ loc' = [loc EXCEPT ![t].hit = TRUE]
          /\ Goto(t, "done")
     ELSE /\ Goto(t, "import")
          /\ UNCHANGED <<result, loc>>
  /\ UNCHANGED <<env, importable, cache, nCalls, nInvoked, everFailed, log,
                 pin, pout>>

\* if "_HF_TOKENIZER" in globals(): return _HF_TOKENIZER
CheckCache(t) ==
  /\ pc[t] = "check"
  /\ IF cache # Unbound
     THEN /\ result' = [result EXCEPT ![t] = Returned(cache)]
          /\ loc' = [loc EXCEPT ![t].hit = TRUE]
          /\ Goto(t, "done")
     ELSE /\ Goto(t, "import")
          /\ UNCHANGED <<result, loc>>
  /\ UNCHANGED <<env, importable, cache, nCalls, nInvoked, everFailed, log,
                 pin, pout>>

\* from transformers import AutoTokenizer
Import(t) ==
  /\ pc[t] = "import"
  /\ IF importable
     THEN Goto(t, "model") /\ UNCHANGED loc
     ELSE Throw(t, <<Frame("ModuleNotFoundError", <<"No module named 'transformers'">>)>>)
  /\ UNCHANGED <<env, importable, cache, result, nCalls, nInvoked, everFailed,
                 log, pin, pout>>

\* Variant: the test is "if hf_tokenizer_model is None".
ReadModel_is_none(t) ==
  /\ pc[t] = "model"
  /\ LET m == env["HF_TOKENIZER_MODEL"]
     IN IF ~m.present
        THEN /\ loc' = [loc EXCEPT ![t].model = m, ![t].reads = @ + 1,
                                   ![t].e = <<Frame("NameError", NameErrorMsg)>>]
             /\ Goto(t, "except")
        ELSE /\ loc' = [loc EXCEPT ![t].model = m, ![t].reads = @ + 1]
             /\ Goto(t, "args")
  /\ UNCHANGED <<env, importable, cache, result, nCalls, nInvoked, everFailed,
                 log, pin, pout>>

\* hf_tokenizer_model = os.environ.get(...); raise NameError if it is falsy
ReadModel(t) ==
  /\ pc[t] = "model"
  /\ LET m == env["HF_TOKENIZER_MODEL"]
     IN IF ~m.present \/ m.v = <<>>
        THEN /\ loc' = [loc EXCEPT ![t].model = m, ![t].reads = @ + 1,
                                   ![t].e = <<Frame("NameError", NameErrorMsg)>>]
             /\ Goto(t, "except")
        ELSE /\ loc' = [loc EXCEPT ![t].model = m, ![t].reads = @ + 1]
             /\ Goto(t, "args")
  /\ UNCHANGED <<env, importable, cache, result, nCalls, nInvoked, everFailed,
                 log, pin, pout>>

\* tokenizer_args = _safe_json_loads_(os.environ.get("HF_TOKENIZER_ARGS"))
ReadArgs(t) ==
  /\ pc[t] = "args"
  /\ LET r == safe_json_loads(env["HF_TOKENIZER_ARGS"])
     IN IF r.kind = "raise"
        THEN /\ loc' = [loc EXCEPT ![t].reads = @ + 1, ![t].e = r.exc]
             /\ Goto(t, "except")
        ELSE /\ loc' = [loc EXCEPT ![t].reads = @ + 1, ![t].args = r.val]
             /\ Goto(t, "flag")
  /\ UNCHANGED <<env, importable, cache, result, nCalls, nInvoked, everFailed,
                 log, pin, pout>>

\* Variant: the flag is not written.
SetFlag_skipped(t) ==
  /\ pc[t] = "flag"
  /\ Goto(t, "construct")
  /\ UNCHANGED <<env, importable, cache, loc, result, nCalls, nInvoked,
                 everFailed, log, pin, pout>>

\* os.environ["TOKENIZERS_PARALLELISM"] = "false"
SetFlag(t) ==
  /\ pc[t] = "flag"
  /\ env' = [env EXCEPT !["TOKENIZERS_PARALLELISM"] = Some(<<"f", "a", "l", "s", "e">>)]
  /\ loc' = [loc EXCEPT ![t].flag = Append(@, <<"f", "a", "l", "s", "e">>)]
  /\ Goto(t, "construct")
  /\ UNCHANGED <<importable, cache, result, nCalls, nInvoked, everFailed, log,
                 pin, pout>>

\* Variant: a value that is not a mapping is passed as no keyword
\* arguments at all.
Construct_drops_nonmapping(t) ==
  /\ pc[t] = "construct"
  /\ nInvoked' = nInvoked + 1
  /\ loc' = [loc EXCEPT ![t].invoked = TRUE, ![t].made = nInvoked + 1]
  /\ Goto(t, "store")
  /\ UNCHANGED <<env, importable, cache, result, nCalls, everFailed, log, pin,
                 pout>>

\* AutoTokenizer.from_pretrained(hf_tokenizer_model, **tokenizer_args) is
\* called; ** of a value that is not a mapping is a TypeError and the
\* function is not entered.
Construct(t) ==
  /\ pc[t] = "construct"
  /\ IF loc[t].args.t # "dict"
     THEN /\ Throw(t, <<Frame("TypeError", <<"argument after ** must be a mapping">>)>>)
          /\ UNCHANGED nInvoked
     ELSE /\ nInvoked' = nInvoked + 1
          /\ loc' = [loc EXCEPT ![t].invoked = TRUE, ![t].made = nInvoked + 1]
          /\ Goto(t, "store")
  /\ UNCHANGED <<env, importable, cache, result, nCalls, everFailed, log, pin,
                 pout>>

\* from_pretrained returns a new handle, which is assigned to the global.
StoreHandle(t) ==
  /\ pc[t] = "store"
  /\ cache' = Handle(loc[t].made)
  /\ Goto(t, "log")
  /\ UNCHANGED <<env, importable, loc, result, nCalls, nInvoked, everFailed,
                 log, pin, pout>>

\* Variant: a failed construction leaves None in the global.
ConstructFails_cached(t) ==
  /\ pc[t] = "store"
  /\ \E type \in LibExcTypes : Throw(t, <<Frame(type, <<"(library message)">>)>>)
  /\ everFailed' = TRUE
  /\ cache' = PyNone
  /\ UNCHANGED <<env, importable, result, nCalls, nInvoked, log, pin, pout>>

\* from_pretrained raises.
ConstructFails(t) ==
  /\ pc[t] = "store"
  /\ \E type \in LibExcTypes : Throw(t, <<Frame(type, <<"(library message)">>)>>)
  /\ everFailed' = TRUE
  /\ UNCHANGED <<env, importable, cache, result, nCalls, nInvoked, log, pin,
                 pout>>

\* logger.warning(f"Huggingface Tokenizer has been loaded: {hf_tokenizer_model}")
LogLoaded(t) ==
  /\ pc[t] = "log"
  /\ log' = Append(log, [level |-> "WARNING",
                         msg |-> <<"Huggingface Tokenizer has been loaded: ">>
                                 \o loc[t].model.v])
  /\ Goto(t, "return")
  /\ UNCHANGED <<env, importable, cache, loc, result, nCalls, nInvoked,
                 everFailed, pin, pout>>

\* return _HF_TOKENIZER
ReturnHandle(t) ==
  /\ pc[t] = "return"
  /\ result' = [result EXCEPT ![t] = Returned(cache)]
  /\ Goto(t, "done")
  /\ UNCHANGED <<env, importable, cache, loc, nCalls, nInvoked, everFailed,
                 log, pin, pout>>

\* Variant: a ValueError is re-raised as it is.
Handle_reraises_ValueError(e) ==
  IF ~IsInstance(e, "Exception") \/ IsInstance(e, "ValueError") THEN Raised(e)
  ELSE IF ~IsInstance(e, "NameError")
       THEN Raised(RaiseFrom(Frame("RuntimeError", RuntimeErrorMsg), e))
  ELSE Returned(PyNone)

\* Variant: a NameError is re-raised as it is.
Handle_reraises_NameError(e) ==
  IF ~IsInstance(e, "Exception") \/ IsInstance(e, "NameError") THEN Raised(e)
  ELSE Raised(RaiseFrom(Frame("RuntimeError", RuntimeErrorMsg), e))

\* What the except clause does with exception e: "except Exception" does
\* not catch what is not an Exception; a NameError becomes None; anything
\* else is wrapped.
Handle_(e) ==
  IF ~IsInstance(e, "Exception") THEN Raised(e)
  ELSE IF ~IsInstance(e, "NameError")
       THEN Raised(RaiseFrom(Frame("RuntimeError", RuntimeErrorMsg), e))
  ELSE Returned(PyNone)

\* Variant: the except clause removes TOKENIZERS_PARALLELISM again.
Except_clears_flag(t) ==
  /\ pc[t] = "except"
  /\ result' = [result EXCEPT ![t] = Handle_(loc[t].e)]
  /\ env' = [env EXCEPT !["TOKENIZERS_PARALLELISM"] = Absent]
  /\ Goto(t, "done")
  /\ UNCHANGED <<importable, cache, loc, nCalls, nInvoked, everFailed, log,
                 pin, pout>>

\* Variant: the except clause logs before it raises or returns.
Except_logs(t) ==
  /\ pc[t] = "except"
  /\ result' = [result EXCEPT ![t] = Handle_(loc[t].e)]
  /\ log' = Append(log, [level |-> "WARNING",
                         msg |-> <<"Huggingface Tokenizer has been loaded: ">>
                                 \o loc[t].model.v])
  /\ Goto(t, "done")
  /\ UNCHANGED <<env, importable, cache, loc, nCalls, nInvoked, everFailed,
                 pin, pout>>

Except(t) ==
  /\ pc[t] = "except"
  /\ result' = [result EXCEPT ![t] = Handle_(loc[t].e)]
  /\ Goto(t, "done")
  /\ UNCHANGED <<env, importable, cache, loc, nCalls, nInvoked, everFailed,
                 log, pin, pout>>

\* The caller takes the outcome and goes on.
Resume(t) ==
  /\ pc[t] = "done"
  /\ Goto(t, "idle")
  /\ loc' = [loc EXCEPT ![t] = Locals0]
  /\ result' = [result EXCEPT ![t] = NotRun]
  /\ UNCHANGED <<env, importable, cache, nCalls, nInvoked, everFailed, log,
                 pin, pout>>

Step(t) ==
  \/ Call(t)
  \/ CheckCache(t)
  \/ Import(t)
  \/ ReadModel(t)
  \/ ReadArgs(t)
  \/ SetFlag(t)
  \/ Construct(t)
  \/ StoreHandle(t)
  \/ ConstructFails(t)
  \/ LogLoaded(t)
  \/ ReturnHandle(t)
  \/ Except(t)
  \/ Resume(t)

EnvChange ==
  \/ \E name \in EnvNames : \E val \in EnvValues(name) : SetEnv(name, val)
  \/ \E b \in BOOLEAN : SetImportable(b)

\* Concurrent callers; the process configures its environment while no
\* call is running.
Quiescent == \A t \in Threads : pc[t] = "idle"

Next == (Quiescent /\ EnvChange) \/ \E t \in Threads : Step(t)

Spec == Init /\ [][Next]_vars

\* One caller; the environment changes only between calls.
SeqNext == (pc[MainThread] = "idle" /\ EnvChange) \/ Step(MainThread)

SeqSpec == Init /\ [][SeqNext]_vars

\* ------------------------------------------------------------ parser specification
\* _safe_json_loads_ applied once to each argument: None and every string
\* of at most MaxLen characters, and the longer strings of ExtraStrings.
ParserInputs == {Absent} \cup {Some(s) : s \in StringsUpTo(MaxLen) \cup ExtraStrings}

ParserInit ==
  /\ pin \in ParserInputs
  /\ pout = NotRun
  /\ env = [n \in EnvNames |-> Absent]
  /\ importable = TRUE
  /\ cache = Unbound
  /\ pc = [t \in Threads |-> "idle"]
  /\ loc = [t \in Threads |-> Locals0]
  /\ result = [t \in Threads |-> NotRun]
  /\ nCalls = 0
  /\ nInvoked = 0
  /\ everFailed = FALSE
  /\ log = <<>>

Parse ==
  /\ pout.kind = "none"
  /\ pout' = safe_json_loads(pin)
  /\ UNCHANGED <<pin, env, importable, cache, pc, loc, result, nCalls,
                 nInvoked, everFailed, log>>

ParserNext == Parse

ParserSpec == ParserInit /\ [][ParserNext]_vars

\* ------------------------------------------------------------ properties
\* Reading a Python string literal back: the inverse of repr, written
\* independently of PyRepr.  Absent when r is not one complete literal.
RECURSIVE LiteralBody(_, _, _, _)
LiteralBody(r, i, q, acc) ==
  IF i > Len(r) THEN Absent
  ELSE IF r[i] = q THEN (IF i = Len(r) THEN Some(acc) ELSE Absent)
  ELSE IF r[i] = "\\"
       THEN IF i + 1 <= Len(r) /\ r[i + 1] \in {"\\", "'", "\""}
            THEN LiteralBody(r, i + 2, q, Append(acc, r[i + 1]))
            ELSE Absent
  ELSE LiteralBody(r, i + 1, q, Append(acc, r[i]))

ReadLiteral(r) ==
  IF Len(r) >= 2 /\ r[1] \in {"'", "\""} THEN LiteralBody(r, 2, r[1], <<>>)
  ELSE Absent

\* The message of ValueError frame f names the string s: it is the fixed
\* text followed by a literal that reads back as exactly s.
NamesInput(f, s) ==
  /\ f.type = "ValueError"
  /\ Len(f.msg) >= 1
  /\ f.msg[1] = "Failed to decode JSON string "
  /\ ReadLiteral(Tail(f.msg)) = Some(s)

\* C8: for an argument that is None or the empty string _safe_json_loads_
\* returns an empty mapping and does not raise.
C8_EmptyOrAbsentGivesEmptyMapping ==
  (pout.kind # "none" /\ (~pin.present \/ pin.v = <<>>))
    => (pout.kind = "return" /\ pout.val.t = "dict" /\ pout.val.v = <<>>)

C8_Witness == pin = Some(<<>>) /\ pout.kind = "return"

Model == env["HF_TOKENIZER_MODEL"]

Args == env["HF_TOKENIZER_ARGS"]

Flag == env["TOKENIZERS_PARALLELISM"]

False == <<"f", "a", "l", "s", "e">>

Done(t) == pc[t] = "done"

\* The call of t that has just ended began with the global unbound.
DoneFromUninitialized(t) == Done(t) /\ ~loc[t].hit

ArgsInvalid == Args.present /\ Args.v # <<>> /\ ~JsonLoads(Args.v).ok

ArgsMapping ==
  ~Args.present \/ Args.v = <<>>
    \/ (JsonLoads(Args.v).ok /\ JsonLoads(Args.v).val.t = "dict")

IsWrapped(r) ==
  /\ r.kind = "raise"
  /\ r.exc[1] = Frame("RuntimeError", RuntimeErrorMsg)

\* C1: one caller; as long as from_pretrained has never raised it has been
\* invoked at most once, every handle a call returns is the handle of that
\* one invocation, and a call that ends after the invocation returns it.
C1_SingleConstruction ==
  ~everFailed =>
    /\ nInvoked <= 1
    /\ (result[MainThread].kind = "return" /\ IsHandle(result[MainThread].val))
         => (nInvoked = 1 /\ result[MainThread].val = Handle(1))
    /\ (Done(MainThread) /\ nInvoked = 1 /\ Model.present)
         => (result[MainThread] = Returned(Handle(1)) /\ cache = Handle(1))

C1_Witness ==
  /\ nCalls >= 2
  /\ Done(MainThread)
  /\ loc[MainThread].hit
  /\ Model.present
  /\ ~everFailed
  /\ nInvoked = 1
  /\ result[MainThread] = Returned(Handle(1))

\* C2: one caller; once the global is bound no step rebinds it, reads the
\* environment or invokes from_pretrained, and a call that ends returns the
\* bound handle, whatever the environment has become.
C2_InitializedIsFinal ==
  [][cache # Unbound =>
       /\ cache' = cache
       /\ nInvoked' = nInvoked
       /\ loc'[MainThread].reads <= loc[MainThread].reads
       /\ (pc'[MainThread] = "done" => result'[MainThread] = Returned(cache))]_vars

C2_Witness ==
  /\ cache = Handle(1)
  /\ Done(MainThread)
  /\ loc[MainThread].hit
  /\ loc[MainThread].reads = 0
  /\ result[MainThread] = Returned(Handle(1))
  /\ ~Model.present
  /\ ArgsInvalid
  /\ ~importable

\* C3: one caller; a call that began unbound while HF_TOKENIZER_MODEL is
\* unset returns None and leaves the global unbound, whatever
\* HF_TOKENIZER_ARGS holds and whether or not transformers is importable.
C3_UnsetModelReturnsNone ==
  (DoneFromUninitialized(MainThread) /\ ~Model.present)
    => (result[MainThread] = Returned(PyNone) /\ cache = Unbound)

C5_EveryLibraryErrorWrapped ==
  (Done(MainThread) /\ loc[MainThread].invoked /\ loc[MainThread].e # NoExc
     /\ IsInstance(loc[MainThread].e, "Exception"))
    => /\ IsWrapped(result[MainThread])
       /\ Tail(result[MainThread].exc) = loc[MainThread].e

\* C6: one caller; a call that raises leaves the global unbound; a call
\* that began unbound reads the environment again when the import
\* succeeds, and when the configuration is good and from_pretrained does
\* not raise it invokes construction, binds the handle and returns it,
\* whatever failed before.
C6_NoFailureCached ==
  /\ (Done(MainThread) /\ result[MainThread].kind = "raise") => cache = Unbound
  /\ (DoneFromUninitialized(MainThread) /\ importable)
       => loc[MainThread].reads >= 1
  /\ (DoneFromUninitialized(MainThread) /\ importable /\ Model.present
        /\ Model.v # <<>> /\ ArgsMapping /\ loc[MainThread].e = NoExc)
       => /\ loc[MainThread].invoked
          /\ loc[MainThread].reads = 2
          /\ IsHandle(cache)
          /\ result[MainThread] = Returned(cache)

C6_Witness ==
  /\ everFailed
  /\ nInvoked >= 2
  /\ DoneFromUninitialized(MainThread)
  /\ result[MainThread] = Returned(Handle(nInvoked))
  /\ cache = Handle(nInvoked)

\* C7: concurrent callers; nothing orders the callers: a caller at the
\* cache check that finds the global unbound can go on whatever the others
\* are doing, and a caller at the construction step with a mapping invokes
\* from_pretrained whatever the global holds by then.  So two invocations
\* can both be under way before any handle is stored (the witness).
C7_NoMutualExclusion ==
  \A t \in Threads :
    /\ (pc[t] = "check" /\ cache = Unbound)
         => ENABLED (CheckCache(t) /\ pc'[t] = "import")
    /\ (pc[t] = "construct" /\ loc[t].args.t = "dict")
         => ENABLED (Construct(t) /\ nInvoked' = nInvoked + 1)

C7_Witness ==
  /\ cache = Unbound
  /\ nInvoked >= 2
  /\ \E t, u \in Threads :
       /\ t # u
       /\ pc[t] = "store" /\ pc[u] = "store"
       /\ loc[t].made # loc[u].made

\* C10: a call that has invoked from_pretrained has written
\* TOKENIZERS_PARALLELISM exactly once, the value "false", and had done so
\* before the invocation; the write puts "false" into the environment.
C10_FlagWrittenBeforeConstruction ==
  /\ [](\A t \in Threads : loc[t].invoked => loc[t].flag = <<False>>)
  /\ [][\A t \in Threads :
          /\ (~loc[t].invoked /\ loc'[t].invoked)
               => loc[t].flag = <<False>>
          /\ Len(loc'[t].flag) > Len(loc[t].flag) => Flag' = Some(False)]_vars

C10_Witness ==
  \E t \in Threads :
    /\ pc[t] = "store"
    /\ loc[t].invoked
    /\ loc[t].flag = <<False>>
    /\ Flag = Some(False)

ArgsNonMapping ==
  /\ Args.present
  /\ Args.v # <<>>
  /\ JsonLoads(Args.v).ok
  /\ JsonLoads(Args.v).val.t # "dict"

NamesModel(r, m) ==
  /\ Len(r.msg) >= 1
  /\ r.msg[1] = "Huggingface Tokenizer has been loaded: "
  /\ Tail(r.msg) = m

\* What C12 says of the log apart from the level: at most one record; a
\* record is emitted only by the step after the handle was stored, in a
\* call that missed the cache, invoked from_pretrained and has no exception
\* in flight, and it names the model that call read; such a call ends by
\* returning the handle, and a call that ends after a successful
\* construction has emitted the record.
LogOnlyAfterStore ==
  /\ [](Len(log) <= 1)
  /\ [](log # <<>> => IsHandle(cache))
  /\ []((Done(MainThread) /\ loc[MainThread].invoked
           /\ loc[MainThread].e = NoExc)
          => (Len(log) = 1 /\ result[MainThread] = Returned(cache)))
  /\ [][log' # log =>
          /\ pc[MainThread] = "log"
          /\ IsHandle(cache)
          /\ ~loc[MainThread].hit
          /\ loc[MainThread].invoked
          /\ loc[MainThread].e = NoExc
          /\ Len(log') = Len(log) + 1
          /\ NamesModel(log'[Len(log')], loc[MainThread].model.v)
          /\ loc[MainThread].model = Model]_vars

\* C12 as stated: one caller; the record is of informational level, and
\* is emitted once, by the call whose construction succeeded, after the
\* handle was stored.
C12_InfoRecordOnce ==
  /\ [](\A i \in 1..Len(log) : log[i].level = "INFO")
  /\ LogOnlyAfterStore

\* C12 amended: the same, the record being of WARNING level
\* (logger.warning).
C12_WarningRecordOnce ==
  /\ [](\A i \in 1..Len(log) : log[i].level = "WARNING")
  /\ LogOnlyAfterStore

C12_Witness ==
  /\ Done(MainThread)
  /\ loc[MainThread].invoked
  /\ result[MainThread] = Returned(Handle(1))
  /\ Len(log) = 1
  /\ log[1].level = "WARNING"
  /\ NamesModel(log[1], <<"x">>)

DoneParseFailed(t) ==
  /\ Done(t)
  /\ Len(loc[t].e) = 2
  /\ loc[t].e[1].type = "ValueError"
  /\ loc[t].e[2].type = "JSONDecodeError"

\* C14: one caller; a call that returned the cached handle, returned None
\* or failed while parsing HF_TOKENIZER_ARGS has not written
\* TOKENIZERS_PARALLELISM and has left the global as it was; a call that
\* has written the flag has parsed the options and is at the construction
\* step or beyond, and no other step of the accessor changes the flag.
C14_FlagAndCacheUntouched ==
  /\ []((Done(MainThread) /\ loc[MainThread].hit)
          => (loc[MainThread].flag = <<>> /\ cache = result[MainThread].val))
  /\ []((Done(MainThread) /\ result[MainThread] = Returned(PyNone))
          => (loc[MainThread].flag = <<>> /\ cache = Unbound))
  /\ [](DoneParseFailed(MainThread)
          => (loc[MainThread].flag = <<>> /\ cache = Unbound))
  /\ [](loc[MainThread].flag # <<>>
          => /\ pc[MainThread] \in {"construct", "store", "log", "return",
                                    "except", "done"}
             /\ loc[MainThread].args.t # "none")
  /\ [][(Flag' # Flag /\ pc[MainThread] # "idle") => pc[MainThread] = "flag"]_vars

\* The call of t that has just ended raised from the construction step:
\* from_pretrained was entered, or ** rejected the options.
DoneConstructionRaised(t) ==
  /\ Done(t)
  /\ result[t].kind = "raise"
  /\ loc[t].invoked \/ loc[t].e[1].type = "TypeError"

\* C15: one caller; after a call that raised from the construction step
\* the global is still unbound and TOKENIZERS_PARALLELISM is "false",
\* written once by that call; the write replaces whatever value was there,
\* and it is made by every call that gets there, a re-attempt included.
C15_FailedConstructionLeavesFlag ==
  /\ [](DoneConstructionRaised(MainThread)
          => /\ cache = Unbound
             /\ Flag = Some(False)
             /\ loc[MainThread].flag = <<False>>)
  /\ [][(pc[MainThread] = "flag" /\ pc'[MainThread] # "flag")
          => /\ Flag' = Some(False)
             /\ loc'[MainThread].flag = Append(loc[MainThread].flag, False)]_vars

C15_Witness ==
  /\ DoneConstructionRaised(MainThread)
  /\ loc[MainThread].invoked
  /\ nCalls >= 2
  /\ nInvoked >= 2
  /\ cache = Unbound
  /\ Flag = Some(False)

Settled ==
  /\ cache # Unbound
  /\ \A t \in Threads : pc[t] \in {"idle", "check", "done"}

\* C17: concurrent callers; the global is rebound only by the store of a
\* caller that had found it unbound, which puts that caller's own handle
\* there, also over an earlier one (the witness: two calls that returned
\* different handles).  Once every such caller has returned, the global
\* keeps its handle, from_pretrained is not invoked again and every call
\* that ends returns that handle.
C17_OverwriteThenFixed ==
  /\ [][cache' # cache =>
          \E t \in Threads :
            /\ pc[t] = "store"
            /\ ~loc[t].hit
            /\ cache' = Handle(loc[t].made)]_vars
  /\ [][Settled =>
          /\ Settled'
          /\ cache' = cache
          /\ nInvoked' = nInvoked
          /\ \A t \in Threads :
               (pc[t] # "done" /\ pc'[t] = "done")
                 => (loc'[t].hit /\ result'[t] = Returned(cache))]_vars

C17_Witness ==
  /\ Settled
  /\ \E t, u \in Threads :
       /\ Done(t) /\ Done(u)
       /\ result[t].kind = "return" /\ IsHandle(result[t].val)
       /\ result[u].kind = "return" /\ IsHandle(result[u].val)
       /\ result[t].val # result[u].val
       /\ cache = result[u].val

====
